---- MODULE Spec2Model ----
(***************************************************************************)
(* Model of src/src/components/JsonViewer.tsx: the JsonEditor coordinator  *)
(* (input buffer, debounced validation, upload, format/minify, expand      *)
(* state) and the JsonViewer tree (createNode, renderNode).                *)
(*                                                                         *)
(* Text is a sequence of one-character strings, so that parsing,           *)
(* serialising and path joining are computed character by character.       *)
(* A JSON value is a record tagged by t:                                   *)
(*   [t |-> "null"], [t |-> "boolean", v |-> b], [t |-> "number", m, e]    *)
(*   (the decimal m * 10^-e), [t |-> "string", v |-> text],                *)
(*   [t |-> "array", v |-> <<values>>],                                    *)
(*   [t |-> "object", v |-> <<[k |-> text, v |-> value]>>] in key order.   *)
(* JavaScript's null (no document) and the parsed JSON null are the same   *)
(* value, as in the program.                                               *)
(***************************************************************************)
EXTENDS Integers, Sequences, FiniteSets, TLC

\* ------------------------------------------------------------------ text

Digits == <<"0", "1", "2", "3", "4", "5", "6", "7", "8", "9">>

DigitSet == {Digits[i] : i \in 1..10}

DigitVal(c) == (CHOOSE i \in 1..10 : Digits[i] = c) - 1

\* JSON.parse skips these; String.prototype.trim strips them too.
WhiteSpace == {" ", "\n", "\t", "\r"}

RECURSIVE NatToText(_)
NatToText(n) ==
    IF n < 10 THEN <<Digits[n + 1]>>
    ELSE NatToText(n \div 10) \o <<Digits[(n % 10) + 1]>>

RECURSIVE TextToNat(_)
TextToNat(s) ==
    IF s = <<>> THEN 0
    ELSE 10 * TextToNat(SubSeq(s, 1, Len(s) - 1)) + DigitVal(s[Len(s)])

RECURSIVE Pow10(_)
Pow10(n) == IF n = 0 THEN 1 ELSE 10 * Pow10(n - 1)

RECURSIVE Repeat(_, _)
Repeat(s, n) == IF n = 0 THEN <<>> ELSE s \o Repeat(s, n - 1)

\* input.trim() is empty
IsBlank(s) == \A i \in 1..Len(s) : s[i] \in WhiteSpace

\* name.endsWith(suffix)
EndsWith(s, suffix) ==
    /\ Len(s) >= Len(suffix)
    /\ SubSeq(s, Len(s) - Len(suffix) + 1, Len(s)) = suffix

\* ---------------------------------------------------------------- values

JNull == [t |-> "null"]

JBool(b) == [t |-> "boolean", v |-> b]

\* the decimal m * 10^-e, normalised: no trailing zero in the fraction
RECURSIVE JNum(_, _)
JNum(m, e) ==
    IF e > 0 /\ m % 10 = 0 THEN JNum(m \div 10, e - 1)
    ELSE [t |-> "number", m |-> m, e |-> e]

JInt(n) == JNum(n, 0)

JStr(s) == [t |-> "string", v |-> s]

JArr(items) == [t |-> "array", v |-> items]

JObj(entries) == [t |-> "object", v |-> entries]

Entry(k, v) == [k |-> k, v |-> v]

\* typeof value === 'object' && value !== null
IsContainer(x) == x.t \in {"array", "object"}

\* JavaScript truthiness, as tested by `if (parsedJson)` and `parsedJson ?`
Truthy(x) ==
    CASE x.t = "null" -> FALSE
      [] x.t = "boolean" -> x.v
      [] x.t = "number" -> x.m # 0
      [] x.t = "string" -> x.v # <<>>
      [] OTHER -> TRUE

\* An own property name that is a canonical array index: such keys are
\* enumerated first, in ascending numeric order, by Object.keys/entries
\* and JSON.stringify.
IsIndexKey(k) ==
    /\ k # <<>>
    /\ \A i \in 1..Len(k) : k[i] \in DigitSet
    /\ (Len(k) > 1 => k[1] # "0")

KeyBefore(a, b) ==
    IF IsIndexKey(a)
    THEN (IsIndexKey(b) => TextToNat(a) < TextToNat(b))
    ELSE FALSE

\* obj[k] = v on an ordinary object: an existing key keeps its place, an
\* index key goes among the index keys, any other key goes last.
ObjPut(entries, k, v) ==
    IF \E i \in 1..Len(entries) : entries[i].k = k
    THEN [i \in 1..Len(entries) |->
            IF entries[i].k = k THEN Entry(k, v) ELSE entries[i]]
    ELSE LET n == Cardinality({i \in 1..Len(entries) : ~KeyBefore(k, entries[i].k)})
         IN  SubSeq(entries, 1, n) \o <<Entry(k, v)>> \o SubSeq(entries, n + 1, Len(entries))

\* Object.keys(value) / Object.entries(value) of a container: the index
\* strings of an array, the keys of an object.
Keys(x) ==
    IF x.t = "array" THEN [i \in 1..Len(x.v) |-> NatToText(i - 1)]
    ELSE IF x.t = "object" THEN [i \in 1..Len(x.v) |-> x.v[i].k]
    ELSE <<>>

\* obj[Keys(obj)[i]]
ChildAt(x, i) == IF x.t = "array" THEN x.v[i] ELSE x.v[i].v

\* ------------------------------------------------------------- stringify

\* the characters of a string inside a JSON string literal
RECURSIVE EscapeText(_)
EscapeText(s) ==
    IF s = <<>> THEN <<>>
    ELSE LET c == Head(s)
             out == CASE c = "\"" -> <<"\\", "\"">>
                      [] c = "\\" -> <<"\\", "\\">>
                      [] c = "\n" -> <<"\\", "n">>
                      [] c = "\t" -> <<"\\", "t">>
                      [] c = "\r" -> <<"\\", "r">>
                      [] OTHER -> <<c>>
         IN  out \o EscapeText(Tail(s))

QuoteText(s) == <<"\"">> \o EscapeText(s) \o <<"\"">>

PadZeros(s, width) == Repeat(<<"0">>, width - Len(s)) \o s

\* the decimal literal of m * 10^-e
NumText(m, e) ==
    LET a == IF m < 0 THEN 0 - m ELSE m
        sign == IF m < 0 THEN <<"-">> ELSE <<>>
        whole == NatToText(a \div Pow10(e))
        frac == IF e = 0 THEN <<>>
                ELSE <<".">> \o PadZeros(NatToText(a % Pow10(e)), e)
    IN  sign \o whole \o frac

\* JSON.stringify(x, null, indent) of a parsed value; indent = 0 is
\* JSON.stringify(x).  StringifyFrom serialises the members from the i-th on.
RECURSIVE Stringify(_, _, _), StringifyFrom(_, _, _, _)
Stringify(x, indent, depth) ==
    CASE x.t = "null" -> <<"n", "u", "l", "l">>
      [] x.t = "boolean" ->
            IF x.v THEN <<"t", "r", "u", "e">> ELSE <<"f", "a", "l", "s", "e">>
      [] x.t = "number" -> NumText(x.m, x.e)
      [] x.t = "string" -> QuoteText(x.v)
      [] OTHER ->
            LET open == IF x.t = "array" THEN <<"[">> ELSE <<"{">>
                close == IF x.t = "array" THEN <<"]">> ELSE <<"}">>
                gap == IF indent = 0 THEN <<>>
                       ELSE <<"\n">> \o Repeat(<<" ">>, indent * depth)
            IN  IF x.v = <<>> THEN open \o close
                ELSE open \o StringifyFrom(x, indent, depth, 1) \o gap \o close

StringifyFrom(x, indent, depth, i) ==
    IF i > Len(x.v) THEN <<>>
    ELSE LET gap == IF indent = 0 THEN <<>>
                    ELSE <<"\n">> \o Repeat(<<" ">>, indent * (depth + 1))
             name == IF x.t = "array" THEN <<>>
                     ELSE QuoteText(x.v[i].k) \o <<":">>
                          \o (IF indent = 0 THEN <<>> ELSE <<" ">>)
             comma == IF i < Len(x.v) THEN <<",">> ELSE <<>>
         IN  gap \o name \o Stringify(ChildAt(x, i), indent, depth + 1) \o comma
                 \o StringifyFrom(x, indent, depth, i + 1)

\* ----------------------------------------------------------------- parse
\* JSON.parse, by recursive descent over the text (RFC 8259).  A result is
\* [ok, val, pos, err]: pos is the index after the value read.  The model's
\* alphabet has no exponent part in numbers and no \b, \f, \uXXXX escapes.

ParseOk(val, pos) == [ok |-> TRUE, val |-> val, pos |-> pos, err |-> ""]

ParseFail(err, pos) == [ok |-> FALSE, val |-> JNull, pos |-> pos, err |-> err]

\* the character at i, or "" past the end of the text
At(s, i) == IF i >= 1 /\ i <= Len(s) THEN s[i] ELSE ""

\* the SyntaxError raised at position i
SyntaxErrorAt(s, i) ==
    IF i > Len(s) THEN ParseFail("Unexpected end of JSON input", i)
    ELSE ParseFail("Unexpected token in JSON", i)

RECURSIVE SkipWs(_, _)
SkipWs(s, i) == IF At(s, i) \in WhiteSpace THEN SkipWs(s, i + 1) ELSE i

RECURSIVE SkipDigits(_, _)
SkipDigits(s, i) == IF At(s, i) \in DigitSet THEN SkipDigits(s, i + 1) ELSE i

ParseLiteral(s, i, lit, val) ==
    LET n == Cardinality({j \in 1..Len(lit) : \A h \in 1..j : At(s, i + h - 1) = lit[h]})
    IN  IF n = Len(lit) THEN ParseOk(val, i + n) ELSE SyntaxErrorAt(s, i + n)

\* s[i] is "-" or a digit
ParseNumber(s, i) ==
    LET neg == At(s, i) = "-"
        a == IF neg THEN i + 1 ELSE i
        b == IF At(s, a) = "0" THEN a + 1 ELSE SkipDigits(s, a)
        c == IF At(s, b) = "." THEN SkipDigits(s, b + 1) ELSE b
        whole == SubSeq(s, a, b - 1)
        frac == IF c > b THEN SubSeq(s, b + 1, c - 1) ELSE <<>>
        mag == TextToNat(whole \o frac)
    IN  IF b = a THEN SyntaxErrorAt(s, a)
        ELSE IF At(s, b) = "." /\ c = b + 1 THEN SyntaxErrorAt(s, c)
        ELSE ParseOk(JNum(IF neg THEN 0 - mag ELSE mag, Len(frac)), c)

\* the characters of a string literal from j on (after the opening quote)
RECURSIVE ScanString(_, _, _)
ScanString(s, j, acc) ==
    LET c == At(s, j)
        d == At(s, j + 1)
    IN  IF j > Len(s) THEN ParseFail("Unterminated string in JSON", j)
        ELSE IF c = "\"" THEN ParseOk(JStr(acc), j + 1)
        ELSE IF c \in {"\n", "\t", "\r"}
        THEN ParseFail("Bad control character in string literal in JSON", j)
        ELSE IF c = "\\"
        THEN CASE d = "\"" -> ScanString(s, j + 2, Append(acc, "\""))
               [] d = "\\" -> ScanString(s, j + 2, Append(acc, "\\"))
               [] d = "/" -> ScanString(s, j + 2, Append(acc, "/"))
               [] d = "n" -> ScanString(s, j + 2, Append(acc, "\n"))
               [] d = "t" -> ScanString(s, j + 2, Append(acc, "\t"))
               [] d = "r" -> ScanString(s, j + 2, Append(acc, "\r"))
               [] OTHER -> ParseFail("Bad escaped character in JSON", j + 1)
        ELSE ScanString(s, j + 1, Append(acc, c))

RECURSIVE ParseValue(_, _), ParseElements(_, _, _), ParseMembers(_, _, _)
ParseValue(s, start) ==
    LET i == SkipWs(s, start)
        c == At(s, i)
    IN  CASE c = "n" -> ParseLiteral(s, i, <<"n", "u", "l", "l">>, JNull)
          [] c = "t" -> ParseLiteral(s, i, <<"t", "r", "u", "e">>, JBool(TRUE))
          [] c = "f" -> ParseLiteral(s, i, <<"f", "a", "l", "s", "e">>, JBool(FALSE))
          [] c = "\"" -> ScanString(s, i + 1, <<>>)
          [] c = "-" \/ c \in DigitSet -> ParseNumber(s, i)
          [] c = "[" ->
                LET j == SkipWs(s, i + 1)
                IN  IF At(s, j) = "]" THEN ParseOk(JArr(<<>>), j + 1)
                    ELSE ParseElements(s, j, <<>>)
          [] c = "{" ->
                LET j == SkipWs(s, i + 1)
                IN  IF At(s, j) = "}" THEN ParseOk(JObj(<<>>), j + 1)
                    ELSE ParseMembers(s, j, <<>>)
          [] OTHER -> SyntaxErrorAt(s, i)

ParseElements(s, i, acc) ==
    LET r == ParseValue(s, i)
        k == SkipWs(s, r.pos)
    IN  IF ~r.ok THEN r
        ELSE IF At(s, k) = "," THEN ParseElements(s, k + 1, Append(acc, r.val))
        ELSE IF At(s, k) = "]" THEN ParseOk(JArr(Append(acc, r.val)), k + 1)
        ELSE SyntaxErrorAt(s, k)

ParseMembers(s, start, acc) ==
    LET i == SkipWs(s, start)
        key == IF At(s, i) = "\"" THEN ScanString(s, i + 1, <<>>) ELSE SyntaxErrorAt(s, i)
        colon == SkipWs(s, key.pos)
        r == ParseValue(s, colon + 1)
        k == SkipWs(s, r.pos)
    IN  IF ~key.ok THEN key
        ELSE IF At(s, colon) # ":" THEN SyntaxErrorAt(s, colon)
        ELSE IF ~r.ok THEN r
        ELSE IF At(s, k) = "," THEN ParseMembers(s, k + 1, ObjPut(acc, key.val.v, r.val))
        ELSE IF At(s, k) = "}" THEN ParseOk(JObj(ObjPut(acc, key.val.v, r.val)), k + 1)
        ELSE SyntaxErrorAt(s, k)

\* JSON.parse(input): the value, or the SyntaxError's message in err
JSONparse(s) ==
    LET r == ParseValue(s, 1)
        k == SkipWs(s, r.pos)
    IN  IF r.ok /\ k <= Len(s) THEN SyntaxErrorAt(s, k) ELSE r

\* ------------------------------------------------------------------ tree

RootText == <<"r", "o", "o", "t">>

\* `${path}.${k}`
JoinPath(path, k) == path \o <<".">> \o k

\* createNode(key, value, path) with expandedPaths = expanded.  children is
\* <<>> for a scalar (undefined in the program: both have no length > 0).
RECURSIVE createNode(_, _, _, _)
createNode(key, value, path, expanded) ==
    [key |-> key,
     value |-> value,
     type |-> value.t,
     path |-> path,
     isExpanded |-> path \in expanded,
     children |->
        IF IsContainer(value)
        THEN [i \in 1..Len(value.v) |->
                createNode(Keys(value)[i], ChildAt(value, i),
                           JoinPath(path, Keys(value)[i]), expanded)]
        ELSE <<>>]

\* the nodes of a tree in pre-order
RECURSIVE NodesOf(_), NodesFrom(_, _)
NodesOf(node) == <<node>> \o NodesFrom(node.children, 1)

NodesFrom(children, i) ==
    IF i > Len(children) THEN <<>>
    ELSE NodesOf(children[i]) \o NodesFrom(children, i + 1)

\* renderValue(value, type): the literal shown for a scalar
renderValue(value, type) ==
    CASE type = "string" -> <<"\"">> \o value.v \o <<"\"">>
      [] type = "number" -> NumText(value.m, value.e)
      [] type = "boolean" ->
            IF value.v THEN <<"t", "r", "u", "e">> ELSE <<"f", "a", "l", "s", "e">>
      [] type = "null" -> <<"n", "u", "l", "l">>
      [] OTHER -> <<>>

\* renderNode(node, depth): the rows drawn for the node, top to bottom.
\* A "node" row is the header line: clickable says whether its onClick
\* toggles, button is the chevron ("down", "right") or "none" for the
\* spacer, open is the opening bracket, count and close are the summary
\* and closing bracket printed on the header line (count = -1 and close =
\* <<>> when not printed), literal is the scalar's text.  A "close" row is
\* the closing bracket under the children.
RECURSIVE renderNode(_, _), renderChildren(_, _, _)
renderNode(node, depth) ==
    LET hasChildren == Len(node.children) > 0
        isContainer == node.type \in {"object", "array"}
        header ==
            [kind |-> "node",
             path |-> node.path,
             key |-> node.key,
             type |-> node.type,
             indent |-> depth * 20,
             clickable |-> hasChildren,
             button |-> IF hasChildren
                        THEN (IF node.isExpanded THEN "down" ELSE "right")
                        ELSE "none",
             open |-> IF isContainer
                      THEN (IF node.type = "array" THEN <<"[">> ELSE <<"{">>)
                      ELSE <<>>,
             count |-> IF isContainer /\ ~node.isExpanded
                       THEN Len(node.children) ELSE 0 - 1,
             close |-> IF isContainer /\ ~node.isExpanded
                       THEN (IF node.type = "array" THEN <<"]">> ELSE <<"}">>)
                       ELSE <<>>,
             literal |-> IF isContainer THEN <<>>
                         ELSE renderValue(node.value, node.type)]
        footer ==
            [kind |-> "close",
             path |-> node.path,
             key |-> node.key,
             type |-> node.type,
             indent |-> depth * 20,
             clickable |-> FALSE,
             button |-> "none",
             open |-> <<>>,
             count |-> 0 - 1,
             close |-> IF node.type = "array" THEN <<"]">> ELSE <<"}">>,
             literal |-> <<>>]
    IN  IF hasChildren /\ node.isExpanded
        THEN <<header>> \o renderChildren(node.children, depth + 1, 1) \o <<footer>>
        ELSE <<header>>

renderChildren(children, depth, i) ==
    IF i > Len(children) THEN <<>>
    ELSE renderNode(children[i], depth) \o renderChildren(children, depth, i + 1)

\* A JsonViewer that draws the root node as a row of its own.
JsonViewerRootRow(data, expanded) ==
    IF ~Truthy(data) THEN <<>>
    ELSE renderNode(createNode(RootText, data, RootText, expanded), 0)

\* The JsonViewer component: nothing for falsy data, else the rows of the
\* root's children (the root itself gets no row).
JsonViewer(data, expanded) ==
    IF ~Truthy(data) THEN <<>>
    ELSE renderChildren(createNode(RootText, data, RootText, expanded).children, 0, 1)

\* getAllPaths(obj, currentPath) of expandAll
RECURSIVE getAllPaths(_, _), getAllPathsFrom(_, _, _)
getAllPaths(obj, currentPath) ==
    <<currentPath>> \o
        (IF Truthy(obj) /\ IsContainer(obj)
         THEN getAllPathsFrom(obj, currentPath, 1) ELSE <<>>)

getAllPathsFrom(obj, currentPath, i) ==
    IF i > Len(obj.v) THEN <<>>
    ELSE getAllPaths(ChildAt(obj, i), JoinPath(currentPath, Keys(obj)[i]))
            \o getAllPathsFrom(obj, currentPath, i + 1)

Range(seq) == {seq[i] : i \in 1..Len(seq)}

\* --------------------------------------------------------------- program

\* The sampleJson literal of JsonEditor.
sampleJson ==
    JObj(<<
      Entry(<<"n", "a", "m", "e">>, JStr(<<"J", "o", "h", "n", " ", "D", "o", "e">>)),
      Entry(<<"a", "g", "e">>, JInt(30)),
      Entry(<<"i", "s", "A", "c", "t", "i", "v", "e">>, JBool(TRUE)),
      Entry(<<"a", "d", "d", "r", "e", "s", "s">>, JObj(<<
        Entry(<<"s", "t", "r", "e", "e", "t">>, JStr(<<"1", "2", "3", " ", "M", "a", "i", "n", " ", "S", "t">>)),
        Entry(<<"c", "i", "t", "y">>, JStr(<<"N", "e", "w", " ", "Y", "o", "r", "k">>)),
        Entry(<<"z", "i", "p", "C", "o", "d", "e">>, JStr(<<"1", "0", "0", "0", "1">>)),
        Entry(<<"c", "o", "o", "r", "d", "i", "n", "a", "t", "e", "s">>, JObj(<<
          Entry(<<"l", "a", "t">>, JNum(407128, 4)),
          Entry(<<"l", "n", "g">>, JNum(0 - 740060, 4))>>))>>)),
      Entry(<<"h", "o", "b", "b", "i", "e", "s">>, JArr(<<
        JStr(<<"r", "e", "a", "d", "i", "n", "g">>),
        JStr(<<"s", "w", "i", "m", "m", "i", "n", "g">>),
        JStr(<<"c", "o", "d", "i", "n", "g">>)>>)),
      Entry(<<"s", "p", "o", "u", "s", "e">>, JNull),
      Entry(<<"s", "k", "i", "l", "l", "s">>, JObj(<<
        Entry(<<"p", "r", "o", "g", "r", "a", "m", "m", "i", "n", "g">>, JArr(<<
          JStr(<<"J", "a", "v", "a", "S", "c", "r", "i", "p", "t">>),
          JStr(<<"P", "y", "t", "h", "o", "n">>),
          JStr(<<"R", "e", "a", "c", "t">>)>>)),
        Entry(<<"l", "a", "n", "g", "u", "a", "g", "e", "s">>, JArr(<<
          JStr(<<"E", "n", "g", "l", "i", "s", "h">>),
          JStr(<<"S", "p", "a", "n", "i", "s", "h">>)>>))>>))>>)

\* JSON.stringify(sampleJson, null, 2)
SampleText == Stringify(sampleJson, 2, 0)

\* The texts a user types or pastes into the textarea.
\* the empty buffer
TextEmpty == <<>>

\* a space and a newline
TextBlank ==
    <<" ", "\n">>

\* null
TextNull ==
    <<"n", "u", "l", "l">>

\* 0
TextZero ==
    <<"0">>

\* false
TextFalse ==
    <<"f", "a", "l", "s", "e">>

\* ""
TextEmptyString ==
    <<"\"", "\"">>

\* {"a":}
TextBroken ==
    <<"{", "\"", "a", "\"", ":", "}">>

\* {"a":1,"b":[true,null]}
TextScenario ==
    <<"{", "\"", "a", "\"", ":", "1", ",", "\"", "b", "\"", ":", "[", "t",
      "r", "u", "e", ",", "n", "u", "l", "l", "]", "}">>

\* {"e":[]}
TextEmptyArray ==
    <<"{", "\"", "e", "\"", ":", "[", "]", "}">>

\* {"a.b":[1],"a":{"b":[2]}}
TextDotKey ==
    <<"{", "\"", "a", ".", "b", "\"", ":", "[", "1", "]", ",", "\"", "a",
      "\"", ":", "{", "\"", "b", "\"", ":", "[", "2", "]", "}", "}">>

TypedTexts ==
    {TextEmpty,
     TextBlank,
     TextNull,
     TextZero,
     TextFalse,
     TextEmptyString,
     TextBroken,
     TextScenario,
     TextEmptyArray,
     TextDotKey}

\* The files a user picks in the upload input: [present, name, type, content].
\* NoFile is a change event with no file selected.
NoFile == [present |-> FALSE, name |-> <<>>, type |-> "", content |-> <<>>]

File(name, type, content) ==
    [present |-> TRUE, name |-> name, type |-> type, content |-> content]

JsonSuffix == <<".", "j", "s", "o", "n">>

Files ==
    {NoFile,
     File(<<"d", ".", "j", "s", "o", "n">>, "application/json", TextScenario),
     File(<<"x", ".", "j", "s", "o", "n">>, "", TextBroken),
     File(<<"d", "a", "t", "a">>, "application/json", TextZero),
     File(<<"n", "o", "t", "e", "s", ".", "t", "x", "t">>, "text/plain", TextEmptyArray)}

\* ------------------------------------------------------------------ state

\* Clock ticks in one quiescence window (the 300 ms of the debounce).
TicksPerWindow == 2

\* Input events explored in one run: typing, picking a file, and clicks on
\* tree nodes, Expand All and Collapse All.
MaxEvents == 2

VARIABLES
    mounted,          \* the mount effects have run
    jsonInput,        \* useState(''): the input buffer
    parsedJson,       \* useState(null): the parsed document
    validationError,  \* useState(''): the parser's message
    expandedPaths,    \* useState(new Set(['root']))
    activeTab,        \* useState('tree')
    timer,            \* the pending setTimeout of the debounce effect and
                      \* the jsonInput its callback closes over
    elapsed,          \* ticks since the buffer last changed, up to a window
    reads,            \* the FileReader reads in flight
    validated,        \* history: the last argument of validateAndParseJson
    superseded,       \* history: the current burst of buffer changes holds
                      \* one that replaced a pending timeout in its window
    passes,           \* history: the arguments of the validation passes run
                      \* since the current burst began
    trail,            \* history: the last two runs of handleNodeToggle,
                      \* expandAll and collapseAll, each with the path
                      \* clicked, the set before it and the document shown
    events,           \* history: number of input events so far
    rejected,         \* history: the files handleFileUpload refused
    uploads           \* history of the uploads: the files being read, in
                      \* the order the reads were started, and the files
                      \* whose onload ran, in that order, since the buffer
                      \* was last written by another source or validated

vars == <<mounted, jsonInput, parsedJson, validationError,
          expandedPaths, activeTab, timer, elapsed, reads,
          validated, superseded, passes, events, rejected, trail,
          uploads>>

NoTimer == [pending |-> FALSE, input |-> <<>>]

NoUploads == [started |-> <<>>, loaded |-> <<>>]

Init ==
    /\ mounted = FALSE
    /\ jsonInput = <<>>
    /\ parsedJson = JNull
    /\ validationError = ""
    /\ expandedPaths = {RootText}
    /\ activeTab = "tree"
    /\ timer = NoTimer
    /\ elapsed = 0
    /\ reads = {}
    /\ validated = [ran |-> FALSE, input |-> <<>>]
    /\ superseded = FALSE
    /\ passes = <<>>
    /\ trail = <<>>
    /\ events = 0
    /\ rejected = {}
    /\ uploads = NoUploads

\* setJsonInput(text) with an effect that leaves a pending timeout in
\* place instead of replacing it.
SetJsonInputKeepsTimer(text) ==
    /\ jsonInput' = text
    /\ IF text = jsonInput \/ timer.pending
       THEN UNCHANGED <<timer, elapsed, superseded, passes>>
       ELSE /\ timer' = [pending |-> TRUE, input |-> text]
            /\ elapsed' = 0
            /\ superseded' = FALSE
            /\ passes' = <<>>

\* setJsonInput(text) and the re-render it causes.  When the text differs
\* the effect on [jsonInput] runs: its cleanup clears the previous timeout
\* and a new one is set that closes over the new text.  Setting the same
\* text is no state change, and the effect does not run again.
SetJsonInput(text) ==
    /\ jsonInput' = text
    /\ IF text = jsonInput
       THEN UNCHANGED <<timer, elapsed, superseded, passes>>
       ELSE /\ timer' = [pending |-> TRUE, input |-> text]
            /\ elapsed' = 0
            /\ superseded' = IF elapsed < TicksPerWindow
                           THEN (superseded \/ timer.pending) ELSE FALSE
            /\ passes' = IF elapsed < TicksPerWindow THEN passes ELSE <<>>

\* The mount effects without the re-render that follows: the sample is
\* loaded and the timeout set for the initial '' stays in place.
MountKeepsFirstTimer ==
    /\ ~mounted
    /\ mounted' = TRUE
    /\ jsonInput' = SampleText
    /\ parsedJson' = sampleJson
    /\ timer' = [pending |-> TRUE, input |-> <<>>]
    /\ elapsed' = 0
    /\ UNCHANGED <<validationError, expandedPaths, activeTab, reads,
                   validated, superseded, passes, events, rejected, trail,
                   uploads>>

\* The two mount effects and the re-render that follows: the sample is
\* loaded, and the timeout set for the initial '' is replaced by one for
\* the sample text.
Mount ==
    /\ ~mounted
    /\ mounted' = TRUE
    /\ SetJsonInput(SampleText)
    /\ parsedJson' = sampleJson
    /\ UNCHANGED <<validationError, expandedPaths, activeTab, reads,
                   validated, events, rejected, trail, uploads>>

\* validateAndParseJson whose catch branch sets the error and leaves the
\* earlier document in place.
validateAndParseJsonKeepsDoc(input) ==
    IF IsBlank(input)
    THEN [parsedJson |-> JNull, validationError |-> ""]
    ELSE LET r == JSONparse(input)
         IN  IF r.ok
             THEN [parsedJson |-> r.val, validationError |-> ""]
             ELSE [parsedJson |-> parsedJson, validationError |-> r.err]

\* validateAndParseJson(input): the new parsedJson and validationError
validateAndParseJson(input) ==
    IF IsBlank(input)
    THEN [parsedJson |-> JNull, validationError |-> ""]
    ELSE LET r == JSONparse(input)
         IN  IF r.ok
             THEN [parsedJson |-> r.val, validationError |-> ""]
             ELSE [parsedJson |-> JNull, validationError |-> r.err]

\* The pending timeout has reached its delay.
TimerDue == timer.pending /\ elapsed >= TicksPerWindow

\* The page is mounted and no timeout is due: a timeout that is due runs
\* before any later event is handled.
Idle == mounted /\ ~TimerDue

\* Time passes, up to the moment the pending timeout is due.
Tick ==
    /\ mounted
    /\ elapsed < TicksPerWindow
    /\ elapsed' = elapsed + 1
    /\ UNCHANGED <<mounted, jsonInput, parsedJson, validationError,
                   expandedPaths, activeTab, timer, reads, validated,
                   superseded, passes, events, rejected, trail, uploads>>

\* The timeout callback, also resetting the expand state for the new
\* document.
TimerFiresResetsExpand ==
    /\ TimerDue
    /\ LET out == validateAndParseJson(timer.input)
       IN  /\ parsedJson' = out.parsedJson
           /\ validationError' = out.validationError
    /\ timer' = NoTimer
    /\ validated' = [ran |-> TRUE, input |-> timer.input]
    /\ passes' = Append(passes, timer.input)
    /\ expandedPaths' = {RootText}
    /\ uploads' = [uploads EXCEPT !.loaded = <<>>]
    /\ UNCHANGED <<mounted, jsonInput, activeTab, elapsed, reads, superseded,
                   trail, events, rejected>>

\* The timeout callback: validateAndParseJson(jsonInput) with the jsonInput
\* of the render that set the timeout.
TimerFires ==
    /\ TimerDue
    /\ LET out == validateAndParseJson(timer.input)
       IN  /\ parsedJson' = out.parsedJson
           /\ validationError' = out.validationError
    /\ timer' = NoTimer
    /\ validated' = [ran |-> TRUE, input |-> timer.input]
    /\ passes' = Append(passes, timer.input)
    /\ uploads' = [uploads EXCEPT !.loaded = <<>>]
    /\ UNCHANGED <<mounted, jsonInput, expandedPaths, activeTab, elapsed,
                   reads, superseded, events, rejected, trail>>

\* The history of uploads once another source has written the buffer.
OtherWrite == [uploads EXCEPT !.loaded = <<>>]

\* The textarea's onChange: the user changes the buffer to text.
Type(text) ==
    /\ Idle
    /\ events < MaxEvents
    /\ text # jsonInput
    /\ SetJsonInput(text)
    /\ events' = events + 1
    /\ uploads' = OtherWrite
    /\ UNCHANGED <<mounted, parsedJson, validationError, expandedPaths,
                   activeTab, reads, validated, rejected, trail>>

\* The history of uploads once the read of file is started.
Started(file) == [uploads EXCEPT !.started = Append(@, file)]

\* files without file
Without(files, file) == SelectSeq(files, LAMBDA f : f # file)

\* The history of uploads once the onload of file has run: oldest tells
\* whether no read still in flight was started before that of file.
Loaded(file) ==
    [started |-> Without(uploads.started, file),
     loaded |-> Append(uploads.loaded,
                       [file |-> file, oldest |-> Head(uploads.started) = file])]

\* file.type !== 'application/json' && !file.name.endsWith('.json')
Rejected(file) ==
    file.type # "application/json" /\ ~EndsWith(file.name, JsonSuffix)

\* handleFileUpload without the return after the toast: the refused file
\* is read all the same.
handleFileUploadNoReturn(file) ==
    /\ Idle
    /\ IF ~file.present
       THEN UNCHANGED <<reads, events, rejected, uploads>>
       ELSE /\ events < MaxEvents
            /\ events' = events + 1
            /\ rejected' = IF Rejected(file) THEN rejected \cup {file} ELSE rejected
            /\ reads' = reads \cup {file}
            /\ uploads' = Started(file)
    /\ UNCHANGED <<mounted, jsonInput, parsedJson, validationError,
                   expandedPaths, activeTab, timer, elapsed, validated,
                   superseded, passes, trail>>

\* handleFileUpload(event): no file, a refused file (the toast), or a read
\* started
handleFileUpload(file) ==
    /\ Idle
    /\ IF ~file.present
       THEN UNCHANGED <<reads, events, rejected, uploads>>
       ELSE /\ events < MaxEvents
            /\ events' = events + 1
            /\ IF Rejected(file)
               THEN /\ rejected' = rejected \cup {file}
                    /\ UNCHANGED <<reads, uploads>>
               ELSE /\ reads' = reads \cup {file}
                    /\ uploads' = Started(file)
                    /\ UNCHANGED rejected
    /\ UNCHANGED <<mounted, jsonInput, parsedJson, validationError,
                   expandedPaths, activeTab, timer, elapsed, validated,
                   superseded, passes, trail>>

\* reader.onload of a reader that leaves the buffer alone once the onload
\* of another read has written it.
ReaderOnloadFirstWins(file) ==
    /\ Idle
    /\ file \in reads
    /\ reads' = reads \ {file}
    /\ IF uploads.loaded = <<>>
       THEN SetJsonInput(file.content)
       ELSE UNCHANGED <<jsonInput, timer, elapsed, superseded, passes>>
    /\ uploads' = Loaded(file)
    /\ UNCHANGED <<mounted, parsedJson, validationError, expandedPaths,
                   activeTab, validated, events, rejected, trail>>

\* reader.onload: the read of file completes
ReaderOnload(file) ==
    /\ Idle
    /\ file \in reads
    /\ reads' = reads \ {file}
    /\ SetJsonInput(file.content)
    /\ uploads' = Loaded(file)
    /\ UNCHANGED <<mounted, parsedJson, validationError, expandedPaths,
                   activeTab, validated, events, rejected, trail>>

\* The read fails: no onerror handler is set, nothing happens.
ReaderFails(file) ==
    /\ Idle
    /\ file \in reads
    /\ reads' = reads \ {file}
    /\ uploads' = [uploads EXCEPT !.started = Without(@, file)]
    /\ UNCHANGED <<mounted, jsonInput, parsedJson, validationError,
                   expandedPaths, activeTab, timer, elapsed, validated,
                   superseded, passes, events, rejected, trail>>

\* disabled={!parsedJson} on the Format, Minify, Expand All, Collapse All,
\* Copy and Download buttons, and `parsedJson ?` of the output panel
ButtonsEnabled == Truthy(parsedJson)

formatJson ==
    /\ Idle
    /\ ButtonsEnabled
    /\ SetJsonInput(Stringify(parsedJson, 2, 0))
    /\ uploads' = OtherWrite
    /\ UNCHANGED <<mounted, parsedJson, validationError, expandedPaths,
                   activeTab, reads, validated, events, rejected, trail>>

minifyJson ==
    /\ Idle
    /\ ButtonsEnabled
    /\ SetJsonInput(Stringify(parsedJson, 0, 0))
    /\ uploads' = OtherWrite
    /\ UNCHANGED <<mounted, parsedJson, validationError, expandedPaths,
                   activeTab, reads, validated, events, rejected, trail>>

\* copyToClipboard: the write succeeds or is refused; either way only a
\* toast is shown
copyToClipboard ==
    /\ Idle
    /\ ButtonsEnabled
    /\ UNCHANGED vars

\* downloadJson: the blob is handed to the browser, no state changes
downloadJson ==
    /\ Idle
    /\ ButtonsEnabled
    /\ UNCHANGED vars

\* Tabs onValueChange={setActiveTab}
SetActiveTab(tab) ==
    /\ Idle
    /\ ButtonsEnabled
    /\ tab # activeTab
    /\ activeTab' = tab
    /\ UNCHANGED <<mounted, jsonInput, parsedJson, validationError,
                   expandedPaths, timer, elapsed, reads, validated,
                   superseded, passes, events, rejected, trail, uploads>>

\* handleNodeToggle that only ever adds the path
handleNodeToggleAddOnly(expanded, path) == expanded \cup {path}

\* the set handleNodeToggle(path) passes to setExpandedPaths
handleNodeToggle(expanded, path) ==
    IF path \in expanded THEN expanded \ {path} ELSE expanded \cup {path}

\* expandAll that collects the paths below the root only
expandAllBelowRoot(doc) == Range(Tail(getAllPaths(doc, RootText)))

\* the set expandAll passes to setExpandedPaths
expandAll(doc) == Range(getAllPaths(doc, RootText))

\* collapseAll that clears the set
collapseAllEmpty == {}

\* the set collapseAll passes to setExpandedPaths
collapseAll == {RootText}

\* history: a run of one of the three handlers, appended to the trail
Logged(op, path) ==
    LET entry == [op |-> op, path |-> path, before |-> expandedPaths,
                  doc |-> parsedJson]
    IN  IF trail = <<>> THEN <<entry>> ELSE <<trail[Len(trail)], entry>>

\* the rows of the tree view as now drawn
Rows == JsonViewer(parsedJson, expandedPaths)

\* the tree tab is the one shown
TreeShown == ButtonsEnabled /\ activeTab = "tree"

\* A click on the header line of a drawn node: onClick toggles when the
\* node has children, and does nothing otherwise.
ClickNode(row) ==
    /\ Idle
    /\ TreeShown
    /\ events < MaxEvents
    /\ row.kind = "node"
    /\ IF row.clickable
       THEN /\ expandedPaths' = handleNodeToggle(expandedPaths, row.path)
            /\ trail' = Logged("toggle", row.path)
       ELSE UNCHANGED <<expandedPaths, trail>>
    /\ events' = events + 1
    /\ UNCHANGED <<mounted, jsonInput, parsedJson, validationError,
                   activeTab, timer, elapsed, reads, validated, superseded,
                   passes, rejected, uploads>>

ExpandAllClick ==
    /\ Idle
    /\ TreeShown
    /\ events < MaxEvents
    /\ expandedPaths' = expandAll(parsedJson)
    /\ trail' = Logged("expandAll", <<>>)
    /\ events' = events + 1
    /\ UNCHANGED <<mounted, jsonInput, parsedJson, validationError,
                   activeTab, timer, elapsed, reads, validated, superseded,
                   passes, rejected, uploads>>

CollapseAllClick ==
    /\ Idle
    /\ TreeShown
    /\ events < MaxEvents
    /\ expandedPaths' = collapseAll
    /\ trail' = Logged("collapseAll", <<>>)
    /\ events' = events + 1
    /\ UNCHANGED <<mounted, jsonInput, parsedJson, validationError,
                   activeTab, timer, elapsed, reads, validated, superseded,
                   passes, rejected, uploads>>

Next ==
    \/ Mount
    \/ Tick
    \/ TimerFires
    \/ \E text \in TypedTexts : Type(text)
    \/ \E file \in Files : handleFileUpload(file)
    \/ \E file \in reads : ReaderOnload(file)
    \/ \E file \in reads : ReaderFails(file)
    \/ formatJson
    \/ minifyJson
    \/ copyToClipboard
    \/ downloadJson
    \/ \E tab \in {"tree", "formatted"} : SetActiveTab(tab)
    \/ \E row \in Range(Rows) : ClickNode(row)
    \/ ExpandAllClick
    \/ CollapseAllClick

Spec == Init /\ [][Next]_vars

\* The step of the timeout callback as seen on the timer: the steps of
\* TimerFires are the steps of the page that satisfy it, and it is enabled
\* exactly when TimerFires is.
TimerRuns == TimerDue /\ timer' = NoTimer

\* The page under the scheduling of the browser: the mount effects run,
\* time passes, and a timeout that is due runs its callback.
FairSpec ==
    /\ Spec
    /\ WF_vars(Mount)
    /\ WF_vars(Tick)
    /\ WF_timer(TimerRuns)

\* ------------------------------------------------------------------- view

\* The badge beside "JSON Input": Invalid, Valid or none.
Badge ==
    IF validationError # "" THEN "Invalid"
    ELSE IF Truthy(parsedJson) THEN "Valid"
    ELSE "none"

\* What the output panel shows: the tabs with the tree and formatted views
\* of the document, or one of the two prompts.
OutputPanel ==
    IF Truthy(parsedJson) THEN "tabs"
    ELSE IF validationError # "" THEN "Fix JSON errors to view data"
    ELSE "Enter valid JSON to see the visualization"

\* renderSyntaxHighlightedJson(obj, depth): the text of the elements it
\* returns, a <br /> read as a line feed.  A string and a key are put
\* between two double quotes as they are.  renderSyntaxFrom renders the
\* members from the i-th on.
RECURSIVE renderSyntaxHighlightedJson(_, _), renderSyntaxFrom(_, _, _)
renderSyntaxHighlightedJson(obj, depth) ==
    LET indent == Repeat(<<" ", " ">>, depth)
    IN  CASE obj.t = "null" -> <<"n", "u", "l", "l">>
          [] obj.t = "string" -> <<"\"">> \o obj.v \o <<"\"">>
          [] obj.t = "number" -> NumText(obj.m, obj.e)
          [] obj.t = "boolean" ->
                IF obj.v THEN <<"t", "r", "u", "e">>
                ELSE <<"f", "a", "l", "s", "e">>
          [] obj.t = "array" ->
                IF Len(obj.v) = 0 THEN <<"[", "]">>
                ELSE <<"[">> \o renderSyntaxFrom(obj, depth, 1)
                         \o <<"\n">> \o indent \o <<"]">>
          [] OTHER ->
                IF Len(Keys(obj)) = 0 THEN <<"{", "}">>
                ELSE <<"{">> \o renderSyntaxFrom(obj, depth, 1)
                         \o <<"\n">> \o indent \o <<"}">>

renderSyntaxFrom(obj, depth, i) ==
    IF i > Len(obj.v) THEN <<>>
    ELSE LET indent == Repeat(<<" ", " ">>, depth)
             name == IF obj.t = "array" THEN <<>>
                     ELSE <<"\"">> \o Keys(obj)[i] \o <<"\"">> \o <<":", " ">>
             comma == IF i < Len(obj.v) THEN <<",">> ELSE <<>>
         IN  <<"\n">> \o indent \o <<" ", " ">> \o name
                 \o renderSyntaxHighlightedJson(ChildAt(obj, i), depth + 1)
                 \o comma \o renderSyntaxFrom(obj, depth, i + 1)

\* The text inside the <pre> of the Formatted View tab.
FormattedView == renderSyntaxHighlightedJson(parsedJson, 0)

\* ------------------------------------------------- documents for the views
\* The page with documents typed from a bounded set of JSON values: scalars,
\* strings and keys with a double quote or a backslash, empty containers,
\* and containers nested two deep.

DocStrings == {<<>>, <<"a">>, <<"\"">>, <<"\\">>, <<"a", "\"", "b">>}

DocKeys == {<<"a">>, <<"\"">>, <<"\\">>}

DocScalars ==
    {JNull, JBool(TRUE), JBool(FALSE), JInt(0), JInt(7), JNum(15, 1)}
        \cup {JStr(s) : s \in DocStrings}

DocFlat ==
    DocScalars \cup {JArr(<<>>), JObj(<<>>)}
        \cup {JArr(<<x>>) : x \in DocScalars}
        \cup {JObj(<<Entry(k, x)>>) : k \in DocKeys, x \in DocScalars}

DocValues ==
    DocFlat \cup {JArr(<<x>>) : x \in DocFlat}
            \cup {JArr(<<JInt(7), x>>) : x \in DocFlat}
            \cup {JObj(<<Entry(<<"a">>, x)>>) : x \in DocFlat}
            \cup {JObj(<<Entry(<<"a">>, JNull), Entry(<<"\"">>, x)>>) :
                    x \in DocFlat}

\* The user replaces the sample by the minified text of a document.
TypeDoc(doc) ==
    /\ events = 0
    /\ Type(Stringify(doc, 0, 0))

ViewNext ==
    \/ Mount
    \/ Tick
    \/ TimerFires
    \/ \E doc \in DocValues : TypeDoc(doc)
    \/ \E tab \in {"tree", "formatted"} : SetActiveTab(tab)

ViewSpec == Init /\ [][ViewNext]_vars

\* ----------------------------------------------------------------- claims

\* C1: debounce.  In a burst of buffer changes, each less than a window
\* after the one before, no validation pass runs while the burst is open
\* (the pending timeout is the one for the latest content), and once the
\* timeout has run exactly one pass has run in the burst, on the final
\* buffer content.
C1_Debounce ==
    /\ Len(passes) <= 1
    /\ timer.pending => passes = <<>> /\ timer.input = jsonInput
    /\ (mounted /\ ~timer.pending) => passes = <<jsonInput>>

\* A burst with a superseded change has ended in its single pass.
C1_Witness ==
    /\ superseded
    /\ ~timer.pending
    /\ passes = <<jsonInput>>
    /\ events >= 1

\* The result now held is that of a validation pass over text.
PassedOver(text) == validated.ran /\ validated.input = text

\* no document and no error
Neutral == OutputPanel # "tabs" /\ Badge = "none" /\ validationError = ""

\* C2: after a validation pass over T the state is neutral iff T is blank,
\* and every non-blank well-formed T, scalar documents included, gives
\* Valid: the document is shown in the tabs with the Valid badge and no
\* error.
C2_NeutralIffBlank ==
    validated.ran =>
        /\ Neutral <=> IsBlank(validated.input)
        /\ (~IsBlank(validated.input) /\ JSONparse(validated.input).ok) =>
                /\ OutputPanel = "tabs"
                /\ Badge = "Valid"
                /\ validationError = ""

\* Every text the buffer can hold: the typed texts, the file contents, the
\* sample, and the formatted and minified forms of the documents they parse
\* to.
BufferTexts ==
    LET given == TypedTexts \cup {file.content : file \in Files}
                            \cup {SampleText}
        docs == {JSONparse(t).val :
                    t \in {g \in given : ~IsBlank(g) /\ JSONparse(g).ok}}
    IN  given \cup {Stringify(doc, 2, 0) : doc \in docs}
              \cup {Stringify(doc, 0, 0) : doc \in docs}

\* JSON.parse throws on these buffer texts.
ParseThrows == {t \in BufferTexts : ~IsBlank(t) /\ ~JSONparse(t).ok}

\* C3: the document and a non-empty error are never present together, and
\* after a pass whose parse fails the error is non-empty, the document is
\* cleared and the output panel shows the fix-errors prompt.
C3_ValidXorInvalid ==
    /\ validationError # "" => parsedJson = JNull
    /\ validated.ran => validated.input \in BufferTexts
    /\ (validated.ran /\ validated.input \in ParseThrows) =>
            /\ validationError # ""
            /\ parsedJson = JNull
            /\ OutputPanel = "Fix JSON errors to view data"

\* A pass over the broken text has failed while a document was shown.
C3_Witness == PassedOver(TextBroken) /\ Badge = "Invalid"

\* the tree createNode builds for the document
TreeOf(doc) == createNode(RootText, doc, RootText, expandedPaths)

\* C4: any two distinct positions of the document shown get different
\* paths from createNode.
C4_PathsUnique ==
    Truthy(parsedJson) =>
        LET nodes == NodesOf(TreeOf(parsedJson))
        IN  \A i, j \in 1..Len(nodes) : i # j => nodes[i].path # nodes[j].path

\* C5: every drawn container node with no children shows its opening and
\* its closing bracket and has no expand affordance.
C5_EmptyContainerRows ==
    \A row \in Range(Rows) :
        (row.kind = "node" /\ row.type \in {"array", "object"} /\ ~row.clickable) =>
            /\ row.open # <<>>
            /\ row.close # <<>>
            /\ row.button = "none"

\* a step of one of the three expand actions
ExpandAction ==
    \/ \E row \in Range(Rows) : ClickNode(row)
    \/ ExpandAllClick
    \/ CollapseAllClick

\* C6: only the single-node toggle, Expand All and Collapse All change
\* expandedPaths; every other step leaves it as it was.
C6_ExpandStateFrame == [][expandedPaths' # expandedPaths => ExpandAction]_vars

\* Expand state set by a toggle has survived a validation pass over typed
\* text and a switch to the formatted view.
C6_Witness ==
    /\ expandedPaths # {RootText}
    /\ validated.ran
    /\ validated.input \in TypedTexts
    /\ activeTab = "formatted"

\* the paths that differ in membership between two sets
Flipped(a, b) == (a \ b) \cup (b \ a)

\* C7: a toggle of path p changes the membership of p only, and a second
\* toggle of p gives back the set the first started from.
C7_ToggleInvolution ==
    /\ \A p \in expandedPaths \cup Range(getAllPaths(parsedJson, RootText)) :
          /\ Flipped(handleNodeToggle(expandedPaths, p), expandedPaths) = {p}
          /\ handleNodeToggle(handleNodeToggle(expandedPaths, p), p) = expandedPaths
    /\ (trail # <<>> /\ trail[Len(trail)].op = "toggle") =>
          Flipped(expandedPaths, trail[Len(trail)].before) = {trail[Len(trail)].path}
    /\ (Len(trail) = 2 /\ trail[1].op = "toggle" /\ trail[2].op = "toggle"
            /\ trail[1].path = trail[2].path) =>
          expandedPaths = trail[1].before

\* The same node has been toggled twice in a row.
C7_Witness ==
    /\ Len(trail) = 2
    /\ trail[1].op = "toggle"
    /\ trail[2].op = "toggle"
    /\ trail[1].path = trail[2].path

\* Expand All was the last expand action, on the document now shown.
AfterExpandAll ==
    /\ trail # <<>>
    /\ trail[Len(trail)].op = "expandAll"
    /\ trail[Len(trail)].doc = parsedJson

\* C8: after Expand All expandedPaths is exactly the set of paths of the
\* nodes of the document, root included, so every node with children is
\* drawn expanded and every node below the root is drawn.
C8_ExpandAllComplete ==
    AfterExpandAll =>
        LET nodes == NodesOf(TreeOf(parsedJson))
            rows == Rows
        IN  /\ expandedPaths = {nodes[i].path : i \in 1..Len(nodes)}
            /\ RootText \in expandedPaths
            /\ \A row \in Range(rows) : row.clickable => row.button = "down"
            /\ Cardinality({i \in 1..Len(rows) : rows[i].kind = "node"})
                  = Len(nodes) - 1

\* Expand All has run on a nested document.
C8_Witness ==
    /\ AfterExpandAll
    /\ Cardinality(expandedPaths) > 3
    /\ \E row \in Range(Rows) : row.indent > 0

\* C9: Collapse All leaves exactly {root}, whatever the set before it, and
\* so does Expand All followed by Collapse All.
C9_CollapseAllRoot ==
    (trail # <<>> /\ trail[Len(trail)].op = "collapseAll") =>
        expandedPaths = {RootText}

\* Collapse All has run right after Expand All.
C9_Witness ==
    /\ Len(trail) = 2
    /\ trail[1].op = "expandAll"
    /\ trail[2].op = "collapseAll"
    /\ Cardinality(trail[2].before) > 1

\* C10: a file that is neither application/json nor named *.json is
\* refused before any read: the step changes no buffer, document, error,
\* expand state, timeout or read, and no read of a refused file is ever in
\* flight.
C10_RejectedUpload ==
    /\ [](\A file \in reads : ~Rejected(file))
    /\ [][rejected' # rejected =>
            UNCHANGED <<jsonInput, parsedJson, validationError,
                        expandedPaths, timer, reads>>]_vars

\* A file has been refused.
C10_Witness == \E file \in rejected : Rejected(file)

\* C11: whenever the Formatted View tab is shown, its text is the 2-space
\* JSON.stringify of the document, the text Format and Download produce;
\* this for every document, strings and keys with a double quote or a
\* backslash and empty containers included.
C11_FormattedMatchesStringify ==
    (OutputPanel = "tabs" /\ activeTab = "formatted") =>
        FormattedView = Stringify(parsedJson, 2, 0)

\* the content of the read whose onload ran last
LastLoaded == uploads.loaded[Len(uploads.loaded)].file.content

\* C12: overlapping uploads are last-completion-wins.  Once the onload of
\* reads has run, two overlapping reads in either order included, the
\* buffer holds the content of the read that completed last, the pending
\* timeout is for that content (or that content is the one already
\* validated), and the validation pass that follows is over that content.
C12_LastCompletionWins ==
    /\ [](uploads.loaded # <<>> =>
            /\ jsonInput = LastLoaded
            /\ timer.pending => timer.input = LastLoaded
            /\ ~timer.pending => validated = [ran |-> TRUE, input |-> LastLoaded])
    /\ [][(uploads.loaded # <<>> /\ Len(passes') > Len(passes)) =>
            validated' = [ran |-> TRUE, input |-> LastLoaded]]_vars

\* Two reads were in flight at once and the one started first completed
\* last: both have completed and the buffer holds the content of the first.
C12_Witness ==
    /\ reads = {}
    /\ Len(uploads.loaded) = 2
    /\ ~uploads.loaded[1].oldest
    /\ uploads.loaded[1].file.content # uploads.loaded[2].file.content
    /\ jsonInput = uploads.loaded[2].file.content
    /\ timer.pending

\* C13: Format and Minify preserve the value of the buffer in every state
\* where they are enabled, a pending timeout after an unvalidated edit
\* included: the buffer after the click parses to the value the buffer held
\* just before it, whenever that buffer held a value.
C13_FormatMinifyPreserveValue ==
    [][(formatJson \/ minifyJson) =>
          LET before == JSONparse(jsonInput)
              after == JSONparse(jsonInput')
          IN  before.ok => (after.ok /\ after.val = before.val)]_vars

\* The parsed document and the error are those of a validation pass over
\* the current buffer, and no timeout is pending.
Consistent ==
    /\ ~timer.pending
    /\ validated = [ran |-> TRUE, input |-> jsonInput]
    /\ IF IsBlank(jsonInput)
       THEN parsedJson = JNull /\ validationError = ""
       ELSE LET r == JSONparse(jsonInput)
            IN  IF r.ok
                THEN parsedJson = r.val /\ validationError = ""
                ELSE parsedJson = JNull /\ validationError # ""

\* C14: eventual consistency of validation.  If from some point on the
\* buffer is not changed any more (by the sample load, typing, a completed
\* upload, Format or Minify), then a validation pass eventually runs and
\* from then on the document and the error are those of the current buffer.
C14_EventuallyConsistent ==
    <>[][jsonInput' = jsonInput]_vars => <>[]Consistent

\* The sample was replaced by the broken text, and the pass over it has
\* run: the error shown is that of the current buffer.
C14_Witness ==
    /\ Consistent
    /\ jsonInput = TextBroken
    /\ events >= 1

\* C15: the root path is in the expand state in every reachable state, no
\* row of the tree view has the root path, so no click can toggle it, and
\* whenever the tree is shown each direct child of the root has its row at
\* the top level.
C15_RootAlwaysExpanded ==
    /\ RootText \in expandedPaths
    /\ TreeShown =>
          LET rows == Rows
              keys == Keys(parsedJson)
          IN  /\ \A row \in Range(rows) : row.path # RootText
              /\ \A i \in 1..Len(keys) :
                    \E row \in Range(rows) :
                        /\ row.kind = "node"
                        /\ row.indent = 0
                        /\ row.key = keys[i]
                        /\ row.path = JoinPath(RootText, keys[i])

\* A child of the root was toggled open and the tree is shown: the root is
\* in the expand state along with it.
C15_Witness ==
    /\ TreeShown
    /\ trail # <<>>
    /\ trail[Len(trail)].op = "toggle"
    /\ Len(Keys(parsedJson)) > 0
    /\ RootText \in expandedPaths
    /\ \E k \in Range(Keys(parsedJson)) : JoinPath(RootText, k) \in expandedPaths

====
